---- MODULE Spec2Model ----
(***************************************************************************)
(* Model of the in-memory ledger of transaction_processor:                 *)
(*   src/src/transactions.rs  the transaction values                       *)
(*   src/src/ledger.rs        Ledger, add_transaction, the account summary *)
(* Currency is an exact decimal of scale 4; it is modelled as the integer  *)
(* number of 1/10000 units, on which +, - and <= are exact as in           *)
(* BigDecimal.                                                             *)
(***************************************************************************)
EXTENDS Integers, Sequences, FiniteSets, TLC

\* ---- bounds of the model ------------------------------------------------
MaxClient == 1
MaxTxn == 1
MaxAmount == 2
MinAmount == 0

ClientId == 0..MaxClient
TxnId == 0..MaxTxn
\* the amounts submitted: 0..MaxAmount, and the negative ones down to -MinAmount
Currency == (0 - MinAmount)..MaxAmount

\* ---- Option<T> ------------------------------------------------------------
None == <<>>
Some(x) == <<x>>

\* ---- transactions.rs ------------------------------------------------------
\* (the fields of every record are written in one fixed order throughout)
new_dep(client_id, txn_id, amount) ==
  [client_id |-> client_id, txn_id |-> txn_id, amount |-> amount,
   disputed |-> FALSE, kind |-> "Deposit"]

new_wit(client_id, txn_id, amount) ==
  [client_id |-> client_id, txn_id |-> txn_id, amount |-> amount,
   disputed |-> FALSE, kind |-> "Withdrawal"]

new_dis(client_id, txn_id) ==
  [client_id |-> client_id, txn_id |-> txn_id, kind |-> "Dispute"]

new_res(client_id, txn_id) ==
  [client_id |-> client_id, txn_id |-> txn_id, kind |-> "Resolve"]

new_cha(client_id, txn_id) ==
  [client_id |-> client_id, txn_id |-> txn_id, kind |-> "Chargeback"]

is_basic(txn) == txn.kind \in {"Deposit", "Withdrawal"}

set_disputed(txn, new_state) == [txn EXCEPT !.disputed = new_state]

\* ---- ledger.rs: the Ledger ------------------------------------------------
\* HashMap::insert: the value of an existing key is replaced
MapInsert(m, k, v) == [x \in (DOMAIN m) \cup {k} |-> IF x = k THEN v ELSE m[x]]

\* HashMap::remove
MapRemove(m, k) == [x \in (DOMAIN m) \ {k} |-> m[x]]

Ledger_new == [clients |-> <<>>, locked_clients |-> {}, txns |-> <<>>]

\* add_simple_transaction without the check of the locked set
add_simple_transaction_ignores_lock(l, txn) ==
  LET cs == IF txn.client_id \notin DOMAIN l.clients
            THEN MapInsert(l.clients, txn.client_id, {})
            ELSE l.clients
  IN [l EXCEPT
        !.clients = [cs EXCEPT ![txn.client_id] = @ \cup {txn.txn_id}],
        !.txns = MapInsert(l.txns, txn.txn_id, txn)]

\* an add_simple_transaction that rejects a withdrawal of a client without
\* account state
add_simple_transaction_needs_funds(l, txn) ==
  IF txn.client_id \notin l.locked_clients
     /\ ~(txn.kind = "Withdrawal" /\ txn.client_id \notin DOMAIN l.clients)
  THEN LET cs == IF txn.client_id \notin DOMAIN l.clients
                 THEN MapInsert(l.clients, txn.client_id, {})
                 ELSE l.clients
       IN [l EXCEPT
             !.clients = [cs EXCEPT ![txn.client_id] = @ \cup {txn.txn_id}],
             !.txns = MapInsert(l.txns, txn.txn_id, txn)]
  ELSE l

add_simple_transaction(l, txn) ==
  IF txn.client_id \notin l.locked_clients
  THEN LET cs == IF txn.client_id \notin DOMAIN l.clients
                 THEN MapInsert(l.clients, txn.client_id, {})
                 ELSE l.clients
       IN [l EXCEPT
             !.clients = [cs EXCEPT ![txn.client_id] = @ \cup {txn.txn_id}],
             !.txns = MapInsert(l.txns, txn.txn_id, txn)]
  ELSE l

\* a Dispute arm that requires the client of the stored transaction
dispute_arm_checks_client(l, txn) ==
  IF txn.txn_id \in DOMAIN l.txns
     /\ l.txns[txn.txn_id].client_id = txn.client_id
  THEN [l EXCEPT !.txns[txn.txn_id] = set_disputed(@, TRUE)]
  ELSE l

\* the Dispute arm of add_transaction
dispute_arm(l, txn) ==
  IF txn.txn_id \in DOMAIN l.txns
  THEN [l EXCEPT !.txns[txn.txn_id] = set_disputed(@, TRUE)]
  ELSE l

\* a Resolve arm copied from the Dispute arm with the flag left at true
resolve_arm_sets_disputed(l, txn) ==
  IF txn.txn_id \in DOMAIN l.txns
  THEN [l EXCEPT !.txns[txn.txn_id] = set_disputed(@, TRUE)]
  ELSE l

\* a Resolve arm that flips the flag
resolve_arm_toggles(l, txn) ==
  IF txn.txn_id \in DOMAIN l.txns
  THEN [l EXCEPT !.txns[txn.txn_id] = set_disputed(@, ~@.disputed)]
  ELSE l

\* the Resolve arm of add_transaction
resolve_arm(l, txn) ==
  IF txn.txn_id \in DOMAIN l.txns
  THEN [l EXCEPT !.txns[txn.txn_id] = set_disputed(@, FALSE)]
  ELSE l

\* a guard that does not look at the disputed flag of the target
chargeback_guard_ignores_dispute(l, txn) ==
  /\ txn.txn_id \in DOMAIN l.txns
  /\ txn.client_id \in DOMAIN l.clients

\* the match guard of the Chargeback arm
chargeback_guard(l, txn) ==
  /\ txn.txn_id \in DOMAIN l.txns
  /\ l.txns[txn.txn_id].disputed
  /\ txn.client_id \in DOMAIN l.clients

\* a Chargeback arm that locks the client recorded in the target
chargeback_arm_locks_owner(l, txn) ==
  [l EXCEPT
     !.txns = MapRemove(@, txn.txn_id),
     !.clients[txn.client_id] = @ \ {txn.txn_id},
     !.locked_clients = @ \cup {l.txns[txn.txn_id].client_id}]

\* a Chargeback arm that leaves the id in the client's set
chargeback_arm_keeps_client_set(l, txn) ==
  [l EXCEPT
     !.txns = MapRemove(@, txn.txn_id),
     !.locked_clients = @ \cup {txn.client_id}]

\* a Chargeback arm that leaves the target in the store
chargeback_arm_keeps_txn(l, txn) ==
  [l EXCEPT
     !.clients[txn.client_id] = @ \ {txn.txn_id},
     !.locked_clients = @ \cup {txn.client_id}]

\* a Chargeback arm that drops the account state of a client whose set
\* becomes empty
chargeback_arm_drops_empty_client(l, txn) ==
  [clients |-> IF l.clients[txn.client_id] \ {txn.txn_id} = {}
               THEN MapRemove(l.clients, txn.client_id)
               ELSE [l.clients EXCEPT ![txn.client_id] = @ \ {txn.txn_id}],
   locked_clients |-> l.locked_clients \cup {txn.client_id},
   txns |-> MapRemove(l.txns, txn.txn_id)]

\* the body of the Chargeback arm; txn.client_id() of the matched value is
\* the client_id of the chargeback
chargeback_arm(l, txn) ==
  [l EXCEPT
     !.txns = MapRemove(@, txn.txn_id),
     !.clients[txn.client_id] = @ \ {txn.txn_id},
     !.locked_clients = @ \cup {txn.client_id}]

add_transaction(l, txn) ==
  CASE is_basic(txn) -> add_simple_transaction(l, txn)
    [] txn.kind = "Dispute" -> dispute_arm(l, txn)
    [] txn.kind = "Resolve" -> resolve_arm(l, txn)
    [] txn.kind = "Chargeback" /\ chargeback_guard(l, txn) -> chargeback_arm(l, txn)
    [] OTHER -> l

\* ---- ledger.rs: the account summary ---------------------------------------
AccountSummary_new ==
  [available |-> 0, client |-> 0, held |-> 0, locked |-> FALSE, total |-> 0]

\* a loop body whose disputed withdrawal is held without being deducted
summary_step_restores_withdrawal(l, acc, txn_id) ==
  IF txn_id \notin DOMAIN l.txns THEN acc
  ELSE LET t == l.txns[txn_id] IN
    CASE t.kind = "Deposit" /\ ~t.disputed ->
           [acc EXCEPT !.available = @ + t.amount]
      [] t.kind = "Withdrawal" /\ ~t.disputed /\ t.amount <= acc.available ->
           [acc EXCEPT !.available = @ - t.amount]
      [] t.kind = "Deposit" /\ t.disputed ->
           [acc EXCEPT !.held = @ + t.amount]
      [] t.kind = "Withdrawal" /\ t.disputed /\ t.amount <= acc.available ->
           [acc EXCEPT !.held = @ + t.amount]
      [] OTHER -> acc

\* a loop body that skips a withdrawal of exactly the available balance
summary_step_strict_balance(l, acc, txn_id) ==
  IF txn_id \notin DOMAIN l.txns THEN acc
  ELSE LET t == l.txns[txn_id] IN
    CASE t.kind = "Deposit" /\ ~t.disputed ->
           [acc EXCEPT !.available = @ + t.amount]
      [] t.kind = "Withdrawal" /\ ~t.disputed /\ t.amount < acc.available ->
           [acc EXCEPT !.available = @ - t.amount]
      [] t.kind = "Deposit" /\ t.disputed ->
           [acc EXCEPT !.held = @ + t.amount]
      [] t.kind = "Withdrawal" /\ t.disputed /\ t.amount < acc.available ->
           [acc EXCEPT !.available = @ - t.amount, !.held = @ + t.amount]
      [] OTHER -> acc

\* a loop body that holds every deposit, disputed or not
summary_step_holds_deposit(l, acc, txn_id) ==
  IF txn_id \notin DOMAIN l.txns THEN acc
  ELSE LET t == l.txns[txn_id] IN
    CASE t.kind = "Deposit" ->
           [acc EXCEPT !.held = @ + t.amount]
      [] t.kind = "Withdrawal" /\ ~t.disputed /\ t.amount <= acc.available ->
           [acc EXCEPT !.available = @ - t.amount]
      [] t.kind = "Withdrawal" /\ t.disputed /\ t.amount <= acc.available ->
           [acc EXCEPT !.available = @ - t.amount, !.held = @ + t.amount]
      [] OTHER -> acc

\* a loop body that deducts every withdrawal, whatever the balance
summary_step_overdraws(l, acc, txn_id) ==
  IF txn_id \notin DOMAIN l.txns THEN acc
  ELSE LET t == l.txns[txn_id] IN
    CASE t.kind = "Deposit" /\ ~t.disputed ->
           [acc EXCEPT !.available = @ + t.amount]
      [] t.kind = "Withdrawal" /\ ~t.disputed ->
           [acc EXCEPT !.available = @ - t.amount]
      [] t.kind = "Deposit" /\ t.disputed ->
           [acc EXCEPT !.held = @ + t.amount]
      [] t.kind = "Withdrawal" /\ t.disputed ->
           [acc EXCEPT !.available = @ - t.amount, !.held = @ + t.amount]
      [] OTHER -> acc

\* one iteration of the loop of calculate_client_account_summary
summary_step(l, acc, txn_id) ==
  IF txn_id \notin DOMAIN l.txns THEN acc
  ELSE LET t == l.txns[txn_id] IN
    CASE t.kind = "Deposit" /\ ~t.disputed ->
           [acc EXCEPT !.available = @ + t.amount]
      [] t.kind = "Withdrawal" /\ ~t.disputed /\ t.amount <= acc.available ->
           [acc EXCEPT !.available = @ - t.amount]
      [] t.kind = "Deposit" /\ t.disputed ->
           [acc EXCEPT !.held = @ + t.amount]
      [] t.kind = "Withdrawal" /\ t.disputed /\ t.amount <= acc.available ->
           [acc EXCEPT !.available = @ - t.amount, !.held = @ + t.amount]
      [] OTHER -> acc

\* the loop over a sequence of transaction ids
RECURSIVE summary_fold(_, _, _)
summary_fold(l, acc, ids) ==
  IF ids = <<>> THEN acc
  ELSE summary_fold(l, summary_step(l, acc, Head(ids)), Tail(ids))

\* iteration of a BTreeSet<TxnId>: ascending order of the ids
RECURSIVE BTreeSet_iter(_)
BTreeSet_iter(s) ==
  IF s = {} THEN <<>>
  ELSE LET m == CHOOSE x \in s : \A y \in s : x <= y
       IN <<m>> \o BTreeSet_iter(s \ {m})

\* a finish that leaves total as the loop left it
summary_finish_stale_total(l, acc, client_id) ==
  [acc EXCEPT !.locked = client_id \in l.locked_clients]

summary_finish(l, acc, client_id) ==
  [acc EXCEPT !.total = acc.available + acc.held,
              !.locked = client_id \in l.locked_clients]

calculate_client_account_summary(l, client_id) ==
  IF client_id \in DOMAIN l.clients
  THEN Some(summary_finish(l,
              summary_fold(l, [AccountSummary_new EXCEPT !.client = client_id],
                           BTreeSet_iter(l.clients[client_id])),
              client_id))
  ELSE None

\* ---- the state ------------------------------------------------------------
VARIABLES
  l,          \* the Ledger of main
  txn,        \* the transaction handed to the last add_transaction
  arrival,    \* per client, the ids of its set in the order they were inserted
  cha_ids,    \* the ids removed by an effective chargeback so far
  readded,    \* the ids of cha_ids stored again since their last chargeback
  seen_ids,   \* the txn_ids of the deposits and withdrawals applied so far
  distinct_ids, \* whether those txn_ids were pairwise distinct
  dep_run,    \* while the run is deposits of one client with distinct
              \* txn_ids only: that client and the sum of their amounts
  value_clients \* the clients of the deposits and withdrawals applied so far

vars ==
  <<l, txn, arrival, cha_ids, readded, seen_ids, distinct_ids, dep_run,
    value_clients>>

NoTxn == [client_id |-> 0, txn_id |-> 0, kind |-> "None"]

Init ==
  /\ l = Ledger_new
  /\ txn = NoTxn
  /\ arrival = <<>>
  /\ cha_ids = {}
  /\ readded = {}
  /\ seen_ids = {}
  /\ distinct_ids = TRUE
  /\ dep_run = Some(<<>>)
  /\ value_clients = {}

\* a chargeback that takes the Chargeback arm
cha_effective(ledger, t) == t.kind = "Chargeback" /\ chargeback_guard(ledger, t)

\* a deposit or withdrawal that passes the lock check of add_simple_transaction
basic_admitted(ledger, t) == is_basic(t) /\ t.client_id \notin ledger.locked_clients

\* removal of one id from a sequence
SeqRemove(s, x) == SelectSeq(s, LAMBDA y : y # x)

SeqContains(s, x) == \E i \in 1..Len(s) : s[i] = x

\* the insertion order of the ids of each client's set after add_transaction
arrival_after(ledger, arr, t) ==
  IF basic_admitted(ledger, t)
  THEN LET old == IF t.client_id \in DOMAIN arr THEN arr[t.client_id] ELSE <<>>
       IN MapInsert(arr, t.client_id,
                    IF SeqContains(old, t.txn_id) THEN old
                    ELSE Append(old, t.txn_id))
  ELSE IF cha_effective(ledger, t)
  THEN [arr EXCEPT ![t.client_id] = SeqRemove(@, t.txn_id)]
  ELSE arr

\* dep_run after add_transaction(l, t): None once the run holds anything
\* but deposits of one client with pairwise distinct txn_ids
dep_run_after(run, seen, t) ==
  IF run = None \/ t.kind # "Deposit" \/ t.txn_id \in seen THEN None
  ELSE IF run = Some(<<>>) THEN Some(<<t.client_id, t.amount>>)
  ELSE IF run[1][1] = t.client_id THEN Some(<<t.client_id, run[1][2] + t.amount>>)
  ELSE None

\* what the properties remember of the run, after add_transaction(l, t)
Remember(t) ==
  /\ txn' = t
  /\ arrival' = arrival_after(l, arrival, t)
  /\ cha_ids' = IF cha_effective(l, t) THEN cha_ids \cup {t.txn_id} ELSE cha_ids
  /\ readded' = IF cha_effective(l, t) THEN readded \ {t.txn_id}
                ELSE IF basic_admitted(l, t) /\ t.txn_id \in cha_ids
                THEN readded \cup {t.txn_id}
                ELSE readded
  /\ seen_ids' = IF is_basic(t) THEN seen_ids \cup {t.txn_id} ELSE seen_ids
  /\ distinct_ids' = (distinct_ids /\ ~(is_basic(t) /\ t.txn_id \in seen_ids))
  /\ dep_run' = dep_run_after(dep_run, seen_ids, t)
  /\ value_clients' = IF is_basic(t) THEN value_clients \cup {t.client_id}
                      ELSE value_clients

Deposit ==
  \E c \in ClientId, t \in TxnId, a \in Currency :
    /\ l' = add_transaction(l, new_dep(c, t, a))
    /\ Remember(new_dep(c, t, a))

Withdrawal ==
  \E c \in ClientId, t \in TxnId, a \in Currency :
    /\ l' = add_transaction(l, new_wit(c, t, a))
    /\ Remember(new_wit(c, t, a))

Dispute ==
  \E c \in ClientId, t \in TxnId :
    /\ l' = add_transaction(l, new_dis(c, t))
    /\ Remember(new_dis(c, t))

Resolve ==
  \E c \in ClientId, t \in TxnId :
    /\ l' = add_transaction(l, new_res(c, t))
    /\ Remember(new_res(c, t))

Chargeback ==
  \E c \in ClientId, t \in TxnId :
    /\ l' = add_transaction(l, new_cha(c, t))
    /\ Remember(new_cha(c, t))

Next == Deposit \/ Withdrawal \/ Dispute \/ Resolve \/ Chargeback

Spec == Init /\ [][Next]_vars

\* ---- transactions.rs: TryFrom<StringRecord> -------------------------------
\* A StringRecord is a sequence of fields and a field a sequence of pieces of
\* text: " ", one of the characters of a number, or a whole word.
Ok(x) == Some(x)

Err == None

RECURSIVE trim_start(_)
trim_start(s) ==
  IF s # <<>> /\ Head(s) = " " THEN trim_start(Tail(s)) ELSE s

RECURSIVE trim_end(_)
trim_end(s) ==
  IF s # <<>> /\ s[Len(s)] = " " THEN trim_end(SubSeq(s, 1, Len(s) - 1)) ELSE s

\* str::trim
trim(s) == trim_end(trim_start(s))

is_digit(ch) == ch \in {"0", "1", "2", "3", "4", "5", "6", "7", "8", "9"}

to_digit(ch) ==
  CASE ch = "0" -> 0 [] ch = "1" -> 1 [] ch = "2" -> 2 [] ch = "3" -> 3
    [] ch = "4" -> 4 [] ch = "5" -> 5 [] ch = "6" -> 6 [] ch = "7" -> 7
    [] ch = "8" -> 8 [] ch = "9" -> 9

\* the value of a sequence of digits, most significant first
RECURSIVE digits_value(_, _)
digits_value(acc, s) ==
  IF s = <<>> THEN acc
  ELSE digits_value(acc * 10 + to_digit(Head(s)), Tail(s))

all_digits(s) == s # <<>> /\ \A i \in 1..Len(s) : is_digit(s[i])

\* the largest ClientId (u16)
ClientId_MAX == 65535

\* str::parse::<ClientId>: an optional "+" and digits, within the u16 range
parse_ClientId(s) ==
  LET d == IF s # <<>> /\ Head(s) = "+" THEN Tail(s) ELSE s
  IN IF all_digits(d) /\ digits_value(0, d) <= ClientId_MAX
     THEN Ok(digits_value(0, d))
     ELSE Err

\* str::parse::<TxnId>: an optional "+" and digits; the fields of the rows
\* read here have too few digits to leave the u32 range
parse_TxnId(s) ==
  LET d == IF s # <<>> /\ Head(s) = "+" THEN Tail(s) ELSE s
  IN IF all_digits(d) THEN Ok(digits_value(0, d)) ELSE Err

\* Currency::from_str for amounts written in whole units: an optional sign
\* and digits; the text is not trimmed
Currency_from_str(s) ==
  LET neg == s # <<>> /\ Head(s) = "-"
      d == IF s # <<>> /\ Head(s) \in {"+", "-"} THEN Tail(s) ELSE s
  IN IF all_digits(d)
     THEN Ok(IF neg THEN 0 - digits_value(0, d) ELSE digits_value(0, d))
     ELSE Err

\* string_record.get(i), with the indices of the code
get(string_record, i) ==
  IF i + 1 <= Len(string_record) THEN Some(string_record[i + 1]) ELSE None

\* a conversion that does not look at the amount of a dispute, resolve or
\* chargeback row
try_from_ignores_reference_amount(string_record) ==
  IF Len(string_record) < 3 THEN Err
  ELSE
    LET client_id == parse_ClientId(trim(get(string_record, 1)[1]))
        txn_id == parse_TxnId(trim(get(string_record, 2)[1]))
        amount == IF get(string_record, 3) # None
                  THEN Currency_from_str(get(string_record, 3)[1])
                  ELSE Err
        label == trim(get(string_record, 0)[1])
    IN IF client_id = Err \/ txn_id = Err THEN Err
       ELSE CASE label = <<"deposit">> /\ amount # Err ->
                   Ok(new_dep(client_id[1], txn_id[1], amount[1]))
              [] label = <<"withdrawal">> /\ amount # Err ->
                   Ok(new_wit(client_id[1], txn_id[1], amount[1]))
              [] label = <<"dispute">> -> Ok(new_dis(client_id[1], txn_id[1]))
              [] label = <<"resolve">> -> Ok(new_res(client_id[1], txn_id[1]))
              [] label = <<"chargeback">> ->
                   Ok(new_cha(client_id[1], txn_id[1]))
              [] OTHER -> Err

try_from(string_record) ==
  IF Len(string_record) < 3 THEN Err
  ELSE
    LET client_id == parse_ClientId(trim(get(string_record, 1)[1]))
        txn_id == parse_TxnId(trim(get(string_record, 2)[1]))
        amount == IF get(string_record, 3) # None
                  THEN Currency_from_str(get(string_record, 3)[1])
                  ELSE Err
        label == trim(get(string_record, 0)[1])
    IN IF client_id = Err \/ txn_id = Err THEN Err
       ELSE CASE label = <<"deposit">> /\ amount # Err ->
                   Ok(new_dep(client_id[1], txn_id[1], amount[1]))
              [] label = <<"withdrawal">> /\ amount # Err ->
                   Ok(new_wit(client_id[1], txn_id[1], amount[1]))
              [] label = <<"dispute">> /\ amount = Err ->
                   Ok(new_dis(client_id[1], txn_id[1]))
              [] label = <<"resolve">> /\ amount = Err ->
                   Ok(new_res(client_id[1], txn_id[1]))
              [] label = <<"chargeback">> /\ amount = Err ->
                   Ok(new_cha(client_id[1], txn_id[1]))
              [] OTHER -> Err

\* ---- main.rs: the rows of the input file -----------------------------------
LabelFields ==
  {<<"deposit">>, <<"withdrawal">>, <<"dispute">>, <<"resolve">>,
   <<"chargeback">>, <<" ", "deposit", " ">>, <<"Deposit">>, <<"transfer">>,
   <<>>}

ClientIdFields ==
  {<<"0">>, <<" ", "1">>, <<"x">>, <<"6", "5", "5", "3", "6">>, <<>>}

TxnIdFields == {<<"0">>, <<"+", "0", " ">>, <<"-", "1">>, <<"1", "x">>}

AmountFields == {<<>>, <<"1">>, <<"0", "2">>, <<" ", "1">>, <<"x">>}

\* the records read from the file: with and without the amount field, and
\* records of fewer than 3 fields
StringRecords ==
  {<<k, c, t, a>> : k \in LabelFields, c \in ClientIdFields,
                    t \in TxnIdFields, a \in AmountFields} \cup
  {<<k, c, t>> : k \in LabelFields, c \in ClientIdFields, t \in TxnIdFields} \cup
  {<<k, c>> : k \in LabelFields, c \in ClientIdFields} \cup
  {<<k>> : k \in LabelFields} \cup {<<>>}

\* what txn holds after a row that try_from rejected
Rejected == [client_id |-> 0, txn_id |-> 0, kind |-> "Rejected"]

\* the body of the loop of main on one record
main_step(ledger, record) ==
  IF try_from(record) # Err
  THEN add_transaction(ledger, try_from(record)[1])
  ELSE ledger

ReadRecord ==
  \E record \in StringRecords :
    /\ l' = main_step(l, record)
    /\ IF try_from(record) # Err
       THEN Remember(try_from(record)[1])
       ELSE /\ txn' = Rejected
            /\ UNCHANGED <<arrival, cha_ids, readded, seen_ids, distinct_ids,
                           dep_run, value_clients>>

RowNext == ReadRecord

RowSpec == Init /\ [][RowNext]_vars

\* ---- one client with one more txn_id, no txn_id submitted twice -----------
OwnClient == 0

OwnTxnId == 0..(MaxTxn + 1)

OwnDeposit ==
  \E t \in OwnTxnId \ seen_ids, a \in Currency :
    /\ l' = add_transaction(l, new_dep(OwnClient, t, a))
    /\ Remember(new_dep(OwnClient, t, a))

OwnWithdrawal ==
  \E t \in OwnTxnId \ seen_ids, a \in Currency :
    /\ l' = add_transaction(l, new_wit(OwnClient, t, a))
    /\ Remember(new_wit(OwnClient, t, a))

OwnDispute ==
  \E t \in OwnTxnId :
    /\ l' = add_transaction(l, new_dis(OwnClient, t))
    /\ Remember(new_dis(OwnClient, t))

OwnResolve ==
  \E t \in OwnTxnId :
    /\ l' = add_transaction(l, new_res(OwnClient, t))
    /\ Remember(new_res(OwnClient, t))

OwnChargeback ==
  \E t \in OwnTxnId :
    /\ l' = add_transaction(l, new_cha(OwnClient, t))
    /\ Remember(new_cha(OwnClient, t))

OwnNext ==
  OwnDeposit \/ OwnWithdrawal \/ OwnDispute \/ OwnResolve \/ OwnChargeback

OwnSpec == Init /\ [][OwnNext]_vars

\* ---- the inputs of add_transaction ----------------------------------------
BasicTxns ==
  {new_dep(c, t, a) : c \in ClientId, t \in TxnId, a \in Currency} \cup
  {new_wit(c, t, a) : c \in ClientId, t \in TxnId, a \in Currency}

Disputes == {new_dis(c, t) : c \in ClientId, t \in TxnId}

Resolves == {new_res(c, t) : c \in ClientId, t \in TxnId}

Chargebacks == {new_cha(c, t) : c \in ClientId, t \in TxnId}

\* the summary of a client, as summary(client) of the specification
summary(ledger, c) == calculate_client_account_summary(ledger, c)

\* ---- C1 -------------------------------------------------------------------
\* C1: applying a deposit or withdrawal whose txn_id is already a key of the
\* transaction store leaves the ledger as it was (the stored transaction of
\* the first occurrence, every client's set and the locks).
C1_DuplicateIsNoOp ==
  [][(is_basic(txn') /\ txn'.txn_id \in DOMAIN l.txns) => l' = l]_vars

\* ---- C2 -------------------------------------------------------------------
\* the summary folded over the client's ids in the order they were inserted
summary_in_arrival_order(ledger, arr, c) ==
  Some(summary_finish(ledger,
         summary_fold(ledger, [AccountSummary_new EXCEPT !.client = c], arr[c]),
         c))

\* C2: summary(client) is the fold over the client's transactions in the
\* order in which they were applied, whatever the values of the txn_ids
\* (stated for the runs in which no txn_id was submitted twice).
C2_FoldInInsertionOrder ==
  distinct_ids =>
    \A c \in DOMAIN l.clients :
      summary(l, c) = summary_in_arrival_order(l, arrival, c)

\* ---- C3 -------------------------------------------------------------------
\* C3: a deposit or withdrawal for a client of the locked set leaves the
\* whole ledger unchanged, and with it that client's summary.
C3_LockedClientRejectsBasic ==
  \A t \in BasicTxns :
    t.client_id \in l.locked_clients =>
      /\ add_transaction(l, t) = l
      /\ summary(add_transaction(l, t), t.client_id) = summary(l, t.client_id)

\* the last transaction applied was a deposit or withdrawal for a locked
\* client that still has transactions in its set
C3_Witness ==
  /\ is_basic(txn)
  /\ txn.client_id \in l.locked_clients
  /\ l.clients[txn.client_id] # {}

\* ---- C4 -------------------------------------------------------------------
\* C4: no transaction removes a client from the locked set, and a
\* transaction adds a client to it only if it is a chargeback naming that
\* client whose target is stored and disputed and whose client has account
\* state.
C4_StepKeepsLocks(t) ==
  LET after == add_transaction(l, t) IN
    /\ l.locked_clients \subseteq after.locked_clients
    /\ \A c \in after.locked_clients \ l.locked_clients :
         /\ t.kind = "Chargeback"
         /\ t.client_id = c
         /\ t.txn_id \in DOMAIN l.txns
         /\ l.txns[t.txn_id].disputed
         /\ c \in DOMAIN l.clients

C4_LockMonotonic ==
  /\ \A t \in BasicTxns : C4_StepKeepsLocks(t)
  /\ \A t \in Disputes \cup Resolves \cup Chargebacks : C4_StepKeepsLocks(t)

\* a client was locked by a chargeback and transactions of every family
\* were applied afterwards: the last one is a resolve naming the locked client
C4_Witness ==
  /\ txn.kind = "Resolve"
  /\ txn.client_id \in l.locked_clients
  /\ txn.txn_id \in DOMAIN l.txns

\* ---- C5 -------------------------------------------------------------------
\* C5: a chargeback whose txn_id is not in the store, or whose target is not
\* disputed, or whose client_id has no account state, leaves the entire
\* ledger unchanged.
C5_FailedChargebackIsNoOp ==
  \A t \in Chargebacks :
    (\/ t.txn_id \notin DOMAIN l.txns
     \/ ~l.txns[t.txn_id].disputed
     \/ t.client_id \notin DOMAIN l.clients)
    => add_transaction(l, t) = l

\* the last transaction was a chargeback of a stored, disputed transaction
\* by a client without account state, and one of an undisputed transaction
\* is possible in the same state
C5_Witness ==
  /\ txn.kind = "Chargeback"
  /\ txn.txn_id \in DOMAIN l.txns
  /\ l.txns[txn.txn_id].disputed
  /\ txn.client_id \notin DOMAIN l.clients
  /\ \E t \in DOMAIN l.txns : ~l.txns[t].disputed

\* ---- C6 -------------------------------------------------------------------
\* C6: a chargeback whose target is stored and disputed and whose client has
\* account state removes txn_id from the store and from that client's set,
\* adds the client to the locked set, and changes nothing else.
C6_EffectiveChargebackFrame ==
  \A t \in Chargebacks :
    (/\ t.txn_id \in DOMAIN l.txns
     /\ l.txns[t.txn_id].disputed
     /\ t.client_id \in DOMAIN l.clients)
    => LET after == add_transaction(l, t) IN
         /\ DOMAIN after.txns = (DOMAIN l.txns) \ {t.txn_id}
         /\ \A x \in DOMAIN after.txns : after.txns[x] = l.txns[x]
         /\ DOMAIN after.clients = DOMAIN l.clients
         /\ after.clients[t.client_id] = l.clients[t.client_id] \ {t.txn_id}
         /\ \A c \in (DOMAIN l.clients) \ {t.client_id} :
              after.clients[c] = l.clients[c]
         /\ after.locked_clients = l.locked_clients \cup {t.client_id}

\* the last transaction was a chargeback that removed its target and locked
\* its client, while another transaction stays stored and another client
\* stays unlocked
C6_Witness ==
  /\ txn.kind = "Chargeback"
  /\ txn.txn_id \in cha_ids
  /\ txn.txn_id \notin DOMAIN l.txns
  /\ txn.client_id \in l.locked_clients
  /\ DOMAIN l.txns # {}
  /\ \E c \in DOMAIN l.clients : c \notin l.locked_clients

\* ---- C7 -------------------------------------------------------------------
\* C7: a txn_id removed by an effective chargeback is in the store in no
\* later state.
C7_ChargedBackNeverStored == cha_ids \cap DOMAIN l.txns = {}

\* C7 (amended): a txn_id removed by an effective chargeback stays out of
\* the store, and every dispute, resolve and chargeback referencing it is a
\* no-op, for as long as no deposit or withdrawal carrying that txn_id has
\* been admitted since the chargeback.
C7_ChargedBackAbsentUntilReused ==
  \A t \in cha_ids \ readded :
    /\ t \notin DOMAIN l.txns
    /\ \A r \in Disputes \cup Resolves \cup Chargebacks :
         r.txn_id = t => add_transaction(l, r) = l

\* the last transaction was a dispute referencing a charged back txn_id that
\* no deposit or withdrawal has reused, while other transactions are stored
C7_Witness ==
  /\ txn.kind = "Dispute"
  /\ txn.txn_id \in cha_ids \ readded
  /\ DOMAIN l.txns # {}

\* ---- C8 -------------------------------------------------------------------
\* the transaction id is in the set of client c and its stored transaction
\* is an undisputed transaction of the given kind recorded for client c
undisputed_of(ledger, c, id, kind) ==
  /\ c \in DOMAIN ledger.clients
  /\ id \in ledger.clients[c]
  /\ id \in DOMAIN ledger.txns
  /\ ledger.txns[id].kind = kind
  /\ ledger.txns[id].client_id = c
  /\ ~ledger.txns[id].disputed

\* C8: disputing a stored, undisputed deposit of amount A of client c
\* decreases available of summary(c) by A, increases held by A and leaves
\* total unchanged (stated for the runs in which no txn_id was submitted
\* twice).
C8_DisputeDepositMovesFunds ==
  [][\A c \in ClientId :
       (/\ txn'.kind = "Dispute"
        /\ distinct_ids
        /\ undisputed_of(l, c, txn'.txn_id, "Deposit"))
       => LET before == summary(l, c)[1]
              after == summary(l', c)[1]
              A == l.txns[txn'.txn_id].amount
          IN /\ after.available = before.available - A
             /\ after.held = before.held + A
             /\ after.total = before.total]_vars

\* ---- C9 -------------------------------------------------------------------
\* the available balance accumulated by the fold of client c before it
\* reaches transaction id
running_available(ledger, c, id) ==
  summary_fold(ledger, [AccountSummary_new EXCEPT !.client = c],
               BTreeSet_iter({x \in ledger.clients[c] : x < id})).available

\* the withdrawal id of client c is deducted by the fold
deducted(ledger, c, id) ==
  ledger.txns[id].amount <= running_available(ledger, c, id)

\* C9: disputing a stored, undisputed withdrawal of amount A that is
\* deducted from the available balance of client c increases held by A and
\* leaves available and total unchanged (stated for the runs in which no
\* txn_id was submitted twice).
C9_DisputeWithdrawalKeepsTotal ==
  [][\A c \in ClientId :
       (/\ txn'.kind = "Dispute"
        /\ distinct_ids
        /\ undisputed_of(l, c, txn'.txn_id, "Withdrawal")
        /\ deducted(l, c, txn'.txn_id))
       => LET before == summary(l, c)[1]
              after == summary(l', c)[1]
              A == l.txns[txn'.txn_id].amount
          IN /\ after.held = before.held + A
             /\ after.available = before.available
             /\ after.total = before.total]_vars

\* C9 (amended): disputing a stored, undisputed withdrawal of amount A that
\* is deducted from the available balance of client c increases held by A,
\* leaves available unchanged, and so increases total by A.
C9_DisputeWithdrawalHoldsAmount ==
  \A c \in ClientId : \A d \in Disputes :
    (/\ undisputed_of(l, c, d.txn_id, "Withdrawal")
     /\ deducted(l, c, d.txn_id))
    => LET before == summary(l, c)[1]
           after == summary(add_transaction(l, d), c)[1]
           A == l.txns[d.txn_id].amount
       IN /\ after.held = before.held + A
          /\ after.available = before.available
          /\ after.total = before.total + A

\* the last transaction disputed a withdrawal of a positive amount that the
\* fold deducts, and a later transaction of the client follows it in the fold
C9_Witness ==
  /\ txn.kind = "Dispute"
  /\ \E c \in DOMAIN l.clients :
       /\ txn.txn_id \in l.clients[c]
       /\ txn.txn_id \in DOMAIN l.txns
       /\ l.txns[txn.txn_id].kind = "Withdrawal"
       /\ l.txns[txn.txn_id].disputed
       /\ l.txns[txn.txn_id].amount > 0
       /\ deducted(l, c, txn.txn_id)
       /\ summary(l, c)[1].held = l.txns[txn.txn_id].amount

\* ---- C10 ------------------------------------------------------------------
\* C10: for a stored transaction with disputed = false, a dispute followed
\* by a resolve of it gives back the original ledger, and with it every
\* client's summary.
C10_DisputeResolveRoundTrip ==
  \A d \in Disputes : \A r \in Resolves :
    (/\ d.txn_id = r.txn_id
     /\ d.txn_id \in DOMAIN l.txns
     /\ ~l.txns[d.txn_id].disputed)
    => LET after == add_transaction(add_transaction(l, d), r) IN
         /\ after = l
         /\ \A c \in ClientId : summary(after, c) = summary(l, c)

\* the last transaction resolved a stored transaction of a client that is
\* now undisputed, and the client's summary holds nothing
C10_Witness ==
  /\ txn.kind = "Resolve"
  /\ txn.txn_id \in DOMAIN l.txns
  /\ ~l.txns[txn.txn_id].disputed
  /\ \E c \in DOMAIN l.clients :
       /\ txn.txn_id \in l.clients[c]
       /\ summary(l, c)[1].held = 0
       /\ summary(l, c)[1].available > 0

\* ---- C11 ------------------------------------------------------------------
\* the ledger in which the transaction id was never applied: it is neither
\* stored nor a member of any client's set
without_txn(ledger, id) ==
  [clients |-> [c \in DOMAIN ledger.clients |-> ledger.clients[c] \ {id}],
   locked_clients |-> ledger.locked_clients,
   txns |-> MapRemove(ledger.txns, id)]

\* the transaction id is stored, disputed, and owned by client c
disputed_of(ledger, c, id) ==
  /\ c \in DOMAIN ledger.clients
  /\ id \in ledger.clients[c]
  /\ id \in DOMAIN ledger.txns
  /\ ledger.txns[id].client_id = c
  /\ ledger.txns[id].disputed

\* C11: after an effective chargeback of a disputed transaction t by its
\* owning client c, with pairwise distinct txn_ids, summary(c) is the summary
\* of the ledger without t except that locked is true; for a disputed deposit
\* of amount A held and total drop by A and available is unchanged; for a
\* disputed withdrawal that was deducted, A is back in available and held
\* drops by A.
C11_ChargebackUndoesTransaction ==
  [][(/\ txn'.kind = "Chargeback"
      /\ distinct_ids
      /\ disputed_of(l, txn'.client_id, txn'.txn_id))
     => LET c == txn'.client_id
            t == l.txns[txn'.txn_id]
            before == summary(l, c)[1]
            after == summary(l', c)[1]
            never == summary(without_txn(l, t.txn_id), c)[1]
        IN /\ after = [never EXCEPT !.locked = TRUE]
           /\ t.kind = "Deposit" =>
                /\ after.held = before.held - t.amount
                /\ after.total = before.total - t.amount
                /\ after.available = before.available
           /\ (t.kind = "Withdrawal" /\ deducted(l, c, t.txn_id)) =>
                /\ after.available = before.available + t.amount
                /\ after.held = before.held - t.amount]_vars

\* ---- C12 ------------------------------------------------------------------
\* acc.available after the loop has processed the transaction id of client c
available_after(ledger, c, id) ==
  summary_fold(ledger, [AccountSummary_new EXCEPT !.client = c],
               BTreeSet_iter({x \in ledger.clients[c] : x <= id})).available

\* the transaction id is in the set of client c and stored as a withdrawal
withdrawal_of(ledger, c, id) ==
  /\ id \in ledger.clients[c]
  /\ id \in DOMAIN ledger.txns
  /\ ledger.txns[id].kind = "Withdrawal"

\* C12: a withdrawal, disputed or not, whose amount is greater than the
\* running available balance at its position in the fold has no effect: the
\* summary of its client is the summary over the ledger without it; a
\* withdrawal whose amount is at most the running available balance is
\* deducted from it.
C12_WithdrawalOverBalanceHasNoEffect ==
  \A c \in DOMAIN l.clients : \A id \in l.clients[c] :
    withdrawal_of(l, c, id) =>
      IF l.txns[id].amount > running_available(l, c, id)
      THEN summary(l, c) = summary(without_txn(l, id), c)
      ELSE available_after(l, c, id)
             = running_available(l, c, id) - l.txns[id].amount

\* client 0 holds a withdrawal that exceeds the running balance, followed in
\* the fold by a withdrawal of a positive amount that is deducted
C12_Witness ==
  /\ OwnClient \in DOMAIN l.clients
  /\ \E i, j \in l.clients[OwnClient] :
       /\ i < j
       /\ withdrawal_of(l, OwnClient, i)
       /\ l.txns[i].amount > running_available(l, OwnClient, i)
       /\ withdrawal_of(l, OwnClient, j)
       /\ l.txns[j].amount > 0
       /\ l.txns[j].amount <= running_available(l, OwnClient, j)

\* ---- C13 ------------------------------------------------------------------
\* C13: after a sequence of deposits only, all of one client and with
\* pairwise distinct txn_ids, applied to the empty ledger, the summary of
\* that client has available = total = the sum of the deposited amounts,
\* held = 0 and locked = false.
C13_DepositsAddUp ==
  (dep_run # None /\ dep_run # Some(<<>>)) =>
    LET c == dep_run[1][1]
        sum == dep_run[1][2]
    IN summary(l, c)
         = Some([available |-> sum, client |-> c, held |-> 0,
                 locked |-> FALSE, total |-> sum])

\* two deposits of different positive amounts of one client were applied,
\* and nothing else
C13_Witness ==
  /\ dep_run # None
  /\ dep_run # Some(<<>>)
  /\ \E c \in DOMAIN l.clients :
       /\ l.clients[c] = TxnId
       /\ \A i \in TxnId : l.txns[i].amount > 0
       /\ \E i, j \in TxnId : l.txns[i].amount # l.txns[j].amount
       /\ summary(l, c)[1].available = dep_run[1][2]

\* ---- C14 ------------------------------------------------------------------
\* C14: in every reachable state, for every client with account state, the
\* summary has total = available + held, and its locked field is true
\* exactly when the client is in the set of locked clients.
C14_TotalAndLockedAreDerived ==
  \A c \in DOMAIN l.clients :
    LET s == summary(l, c)[1]
    IN /\ s.total = s.available + s.held
       /\ s.locked <=> c \in l.locked_clients

\* a locked client with a positive total next to a client with account
\* state that is not locked
C14_Witness ==
  \E c, d \in DOMAIN l.clients :
    /\ c \in l.locked_clients
    /\ d \notin l.locked_clients
    /\ summary(l, c)[1].locked
    /\ ~summary(l, d)[1].locked
    /\ summary(l, c)[1].total > 0

\* ---- C15 ------------------------------------------------------------------
\* C15: a dispute finds its target by txn_id alone: if the txn_id is stored,
\* the stored transaction becomes disputed whatever the client_id of the
\* dispute (that of another client, or of a client without account state);
\* if it is not stored the ledger is unchanged.  No client's set, no other
\* stored transaction and no lock changes.
C15_DisputeFindsByTxnId ==
  \A d \in Disputes :
    LET after == add_transaction(l, d)
    IN /\ d.txn_id \in DOMAIN l.txns =>
            after.txns[d.txn_id] = [l.txns[d.txn_id] EXCEPT !.disputed = TRUE]
       /\ d.txn_id \notin DOMAIN l.txns => after = l
       /\ DOMAIN after.txns = DOMAIN l.txns
       /\ \A t \in DOMAIN l.txns \ {d.txn_id} : after.txns[t] = l.txns[t]
       /\ after.clients = l.clients
       /\ after.locked_clients = l.locked_clients

\* the last transaction was a dispute, by a client without account state,
\* of a transaction that is stored for another client and now disputed,
\* while a txn_id that is not stored can be disputed in the same state
C15_Witness ==
  /\ txn.kind = "Dispute"
  /\ txn.txn_id \in DOMAIN l.txns
  /\ l.txns[txn.txn_id].disputed
  /\ l.txns[txn.txn_id].client_id # txn.client_id
  /\ txn.client_id \notin DOMAIN l.clients
  /\ DOMAIN l.txns # TxnId

\* ---- C16 ------------------------------------------------------------------
\* C16: a resolve sets the disputed flag of a stored target to false whatever
\* the flag was; on an undisputed target or a txn_id that is not stored it
\* leaves the ledger unchanged; nothing but that flag changes; applying it a
\* second time changes nothing more.
C16_ResolveIsIdempotent ==
  \A r \in Resolves :
    LET after == add_transaction(l, r)
    IN /\ r.txn_id \in DOMAIN l.txns =>
            after.txns[r.txn_id] = [l.txns[r.txn_id] EXCEPT !.disputed = FALSE]
       /\ (r.txn_id \notin DOMAIN l.txns \/ ~l.txns[r.txn_id].disputed) => after = l
       /\ DOMAIN after.txns = DOMAIN l.txns
       /\ \A t \in DOMAIN l.txns \ {r.txn_id} : after.txns[t] = l.txns[t]
       /\ after.clients = l.clients
       /\ after.locked_clients = l.locked_clients
       /\ add_transaction(after, r) = after

\* the last transaction was a resolve of a stored transaction, now
\* undisputed, while another stored transaction is disputed
C16_Witness ==
  /\ txn.kind = "Resolve"
  /\ txn.txn_id \in DOMAIN l.txns
  /\ ~l.txns[txn.txn_id].disputed
  /\ \E t \in DOMAIN l.txns : l.txns[t].disputed

\* ---- C17 ------------------------------------------------------------------
\* every transaction that a row can carry
AllTxns == BasicTxns \cup Disputes \cup Resolves \cup Chargebacks

\* C17: the summary of a client is absent exactly when no deposit or
\* withdrawal of that client was ever applied; a dispute, resolve or
\* chargeback creates no account state; no transaction removes account
\* state; the summary of a client none of whose transactions is stored any
\* more is all zeros.
C17_SummaryAbsentIffNoValueTransaction ==
  /\ \A c \in ClientId : summary(l, c) = None <=> c \notin value_clients
  /\ \A r \in Disputes \cup Resolves \cup Chargebacks :
       DOMAIN add_transaction(l, r).clients = DOMAIN l.clients
  /\ \A t \in AllTxns :
       DOMAIN l.clients \subseteq DOMAIN add_transaction(l, t).clients
  /\ \A c \in DOMAIN l.clients :
       (l.clients[c] \cap DOMAIN l.txns = {}) =>
          /\ summary(l, c)[1].available = 0
          /\ summary(l, c)[1].held = 0
          /\ summary(l, c)[1].total = 0

\* the last transaction charged back the only transaction of its client,
\* whose set is now empty and whose summary is present, while the other
\* client, named in a dispute or resolve before, has no summary
C17_Witness ==
  /\ txn.kind = "Chargeback"
  /\ txn.txn_id \in cha_ids
  /\ txn.client_id \in DOMAIN l.clients
  /\ l.clients[txn.client_id] = {}
  /\ summary(l, txn.client_id) # None
  /\ \E c \in ClientId : summary(l, c) = None

\* ---- C18 ------------------------------------------------------------------
\* C18: a deposit or withdrawal whose txn_id is not in the store, for a
\* client that is not locked, creates the account state of the client if it
\* has none, adds txn_id to the set of that client and stores the
\* transaction as submitted, with disputed = false, whatever its amount;
\* the sets of the other clients, the other stored transactions and the
\* locks are unchanged.
C18_FreshValueTransactionIsStored ==
  \A t \in BasicTxns :
    (t.txn_id \notin DOMAIN l.txns /\ t.client_id \notin l.locked_clients) =>
      LET after == add_transaction(l, t)
          had == IF t.client_id \in DOMAIN l.clients
                 THEN l.clients[t.client_id] ELSE {}
      IN /\ DOMAIN after.clients = DOMAIN l.clients \cup {t.client_id}
         /\ after.clients[t.client_id] = had \cup {t.txn_id}
         /\ \A c \in DOMAIN l.clients \ {t.client_id} :
              after.clients[c] = l.clients[c]
         /\ DOMAIN after.txns = DOMAIN l.txns \cup {t.txn_id}
         /\ after.txns[t.txn_id] = t
         /\ ~after.txns[t.txn_id].disputed
         /\ \A i \in DOMAIN l.txns : after.txns[i] = l.txns[i]
         /\ after.locked_clients = l.locked_clients

\* the last transaction, a withdrawal of more than the balance by a client
\* that had no account state, is stored as submitted, next to the stored
\* transaction of another client
C18_Witness ==
  /\ txn.kind = "Withdrawal"
  /\ distinct_ids
  /\ txn.txn_id \in DOMAIN l.txns
  /\ l.txns[txn.txn_id] = txn
  /\ txn.client_id \in DOMAIN l.clients
  /\ l.clients[txn.client_id] = {txn.txn_id}
  /\ txn.amount > 0
  /\ \E i \in DOMAIN l.txns : l.txns[i].client_id # txn.client_id

\* ---- C19 ------------------------------------------------------------------
\* the record has the three leading fields, and its client id and
\* transaction id parse
ids_parse(r) ==
  /\ Len(r) >= 3
  /\ parse_ClientId(trim(r[2])) # Err
  /\ parse_TxnId(trim(r[3])) # Err

\* the record has an amount field that parses
amount_parses(r) == Len(r) >= 4 /\ Currency_from_str(r[4]) # Err

\* the kind that a label stands for, "None" for any other label
kind_of(label) ==
  CASE label = <<"deposit">> -> "Deposit"
    [] label = <<"withdrawal">> -> "Withdrawal"
    [] label = <<"dispute">> -> "Dispute"
    [] label = <<"resolve">> -> "Resolve"
    [] label = <<"chargeback">> -> "Chargeback"
    [] OTHER -> "None"

\* C19: a row whose label is deposit or withdrawal and whose amount parses
\* gives a value transaction of that kind with disputed = false; a row whose
\* label is dispute, resolve or chargeback and whose amount is absent or
\* does not parse gives a reference transaction of that kind; every other
\* row (value kind without a parseable amount, reference kind with a
\* parseable amount, unknown label, fewer than 3 fields, unparseable client
\* or transaction id) is rejected and leaves the ledger unchanged.
C19_ParseClassifiesRows ==
  \A r \in StringRecords :
    LET kind == IF Len(r) >= 1 THEN kind_of(trim(r[1])) ELSE "None"
    IN IF ids_parse(r) /\ kind \in {"Deposit", "Withdrawal"} /\ amount_parses(r)
       THEN /\ try_from(r) # Err
            /\ try_from(r)[1].kind = kind
            /\ try_from(r)[1].client_id = parse_ClientId(trim(r[2]))[1]
            /\ try_from(r)[1].txn_id = parse_TxnId(trim(r[3]))[1]
            /\ try_from(r)[1].amount = Currency_from_str(r[4])[1]
            /\ try_from(r)[1].disputed = FALSE
       ELSE IF /\ ids_parse(r)
               /\ kind \in {"Dispute", "Resolve", "Chargeback"}
               /\ ~amount_parses(r)
       THEN /\ try_from(r) # Err
            /\ try_from(r)[1].kind = kind
            /\ try_from(r)[1].client_id = parse_ClientId(trim(r[2]))[1]
            /\ try_from(r)[1].txn_id = parse_TxnId(trim(r[3]))[1]
            /\ DOMAIN try_from(r)[1] = {"client_id", "txn_id", "kind"}
       ELSE /\ try_from(r) = Err
            /\ main_step(l, r) = l

\* the last row was rejected, in a ledger that stores a disputed transaction
\* which a chargeback row with a parseable amount would have removed
C19_Witness ==
  /\ txn = Rejected
  /\ \E i \in DOMAIN l.txns :
       /\ l.txns[i].disputed
       /\ l.txns[i].client_id \in DOMAIN l.clients
       /\ i \in l.clients[l.txns[i].client_id]

\* ---- C20 ------------------------------------------------------------------
\* C20: in every reachable state every txn_id of every client's set is a key
\* of the transaction store, so that after an effective chargeback the
\* charged-back txn_id is in no client's set (stated for the runs in which
\* no txn_id was submitted twice).
C20_NoDanglingIds ==
  distinct_ids =>
    \A c \in DOMAIN l.clients : l.clients[c] \subseteq DOMAIN l.txns

\* ---- C21 ------------------------------------------------------------------
\* each txn_id is in the set of at most one client, every stored transaction
\* is in the set of the client it records, and every stored transaction of a
\* client's set records that client
single_ownership(ledger) ==
  /\ \A c, d \in DOMAIN ledger.clients :
       c # d => ledger.clients[c] \cap ledger.clients[d] = {}
  /\ \A id \in DOMAIN ledger.txns :
       /\ ledger.txns[id].client_id \in DOMAIN ledger.clients
       /\ id \in ledger.clients[ledger.txns[id].client_id]
  /\ \A c \in DOMAIN ledger.clients :
       \A id \in ledger.clients[c] \cap DOMAIN ledger.txns :
         ledger.txns[id].client_id = c

\* C21: in every reachable state each txn_id is in the set of at most one
\* client, and that client is the client_id recorded in the stored
\* transaction, so that the summary of a client counts only transactions
\* that record it.
C21_SingleOwnership == single_ownership(l)

\* ---- C22 ------------------------------------------------------------------
\* C22: for every reachable ledger and two distinct clients A and B, a
\* deposit or withdrawal whose client_id is B does not change the summary
\* of A.
C22_ValueTransactionIsolated ==
  [][is_basic(txn') =>
       \A A \in ClientId \ {txn'.client_id} : summary(l', A) = summary(l, A)]_vars

\* ---- C23 ------------------------------------------------------------------
\* available, held and total of the summary of a client with account state
balances(ledger, c) ==
  <<summary(ledger, c)[1].available, summary(ledger, c)[1].held,
    summary(ledger, c)[1].total>>

C24_NoNegativeBalances ==
  (\A i \in DOMAIN l.txns : l.txns[i].amount >= 0) =>
    \A c \in DOMAIN l.clients :
      /\ summary(l, c)[1].available >= 0
      /\ summary(l, c)[1].held >= 0
      /\ summary(l, c)[1].total >= 0

\* a client holds a disputed deposit and a withdrawal of more than its
\* available balance, which the fold skips
C24_Witness ==
  \E c \in DOMAIN l.clients : \E i, j \in l.clients[c] :
    /\ i \in DOMAIN l.txns
    /\ l.txns[i].kind = "Deposit"
    /\ l.txns[i].disputed
    /\ l.txns[i].amount > 0
    /\ withdrawal_of(l, c, j)
    /\ l.txns[j].amount > running_available(l, c, j)
    /\ summary(l, c)[1].available = 0
    /\ summary(l, c)[1].held > 0
====
